---- MODULE Spec2Model ----
(***************************************************************************)
(* RawEdit (frontend/src/pages/RawEdit.tsx): a React function component    *)
(* that reads the file list through useSWR("/api/files", fetcher) and      *)
(* renders one of three views from the pair (data, error) the hook gives.  *)
(*                                                                         *)
(* State: the pair (data, error) the hook returns to the component, the    *)
(* output of the last render, the tab the Tabs container has active, and   *)
(* the requests the hook has issued for the key.  The hook is called with  *)
(* no options (line 10), so it runs with its defaults: it revalidates on   *)
(* window focus and on reconnect, it retries after an error, and it joins  *)
(* a revalidation to a request for the same key that is still in flight.  *)
(***************************************************************************)
EXTENDS Integers, Sequences, FiniteSets

\* ---------------------------------------------------------------- bounds

\* longest file list the endpoint returns
MaxFiles == 2
\* requests issued for the key over one mount
MaxRequests == 3
\* renders of RawEdit over one mount
MaxRenders == 5

\* file names the endpoint may return (duplicates and any order allowed)
FileNames == {"a.yaml", "b.yaml", "c.yaml"}
\* values a rejected fetcher promise may carry
Errors == {"NetworkError", "SyntaxError"}

\* ------------------------------------------------------- optional values

\* JavaScript's undefined, and a defined value v
Undefined == [set |-> FALSE, val |-> <<>>]
Some(v) == [set |-> TRUE, val |-> v]
IsSet(o) == o.set

\* every string[] of at most n entries
FileLists(n) == UNION {[1..k -> FileNames] : k \in 0..n}

VARIABLES
    data,      \* const data  of line 10: Undefined or Some(list of names)
    error,     \* const error of line 10: Undefined or Some(error value)
    view,      \* what the last render of RawEdit returned
    active,    \* value of the tab the Tabs container shows, or Undefined
    inflight,  \* requests for "/api/files" issued and not yet settled
    requests,  \* requests for "/api/files" issued since the mount
    fetched,   \* body of the last successful response, or Undefined
    renders    \* renders of RawEdit since the mount

vars == <<data, error, view, active, inflight, requests, fetched, renders>>

\* ------------------------------------------------------------ the render

\* <SingleFileEdit name={entry} path={entry} />
SingleFileEdit(name, path) == [name |-> name, path |-> path]

\* data.map((entry) => <Tabs.Tab value={entry}>{entry}</Tabs.Tab>)
TabsList(list) ==
    [i \in 1..Len(list) |-> [value |-> list[i], children |-> list[i]]]

\* TabsPanels with the last entry lost (an off-by-one in the mapping)
TabsPanelsDropLast(list) ==
    [i \in 1..(Len(list) - 1) |->
        [value |-> list[i], pt |-> "xs",
         child |-> SingleFileEdit(list[i], list[i])]]

\* TabsPanels with every editor bound to the first entry (a stale capture)
TabsPanelsFirstEntry(list) ==
    [i \in 1..Len(list) |->
        [value |-> list[i], pt |-> "xs",
         child |-> SingleFileEdit(list[1], list[1])]]

\* data.map((entry) => <Tabs.Panel value={entry} pt="xs">...</Tabs.Panel>)
TabsPanels(list) ==
    [i \in 1..Len(list) |->
        [value |-> list[i], pt |-> "xs",
         child |-> SingleFileEdit(list[i], list[i])]]

\* <div>failed to load</div>
FailedView ==
    [element |-> "div", text |-> "failed to load",
     tabs |-> <<>>, panels |-> <<>>]

\* <>loading</>
LoadingView ==
    [element |-> "Fragment", text |-> "loading",
     tabs |-> <<>>, panels |-> <<>>]

\* <Container fluid><Tabs orientation="vertical"> ... </Tabs></Container>
LoadedView(list) ==
    [element |-> "Container", text |-> "",
     tabs |-> TabsList(list), panels |-> TabsPanels(list)]

\* RawEdit without line 12: the error is never looked at
RawEditNoErrorCheck(d, e) ==
    IF ~IsSet(d) THEN LoadingView ELSE LoadedView(d.val)

\* RawEdit without line 13: (data || []).map in place of the early return
RawEditNoLoading(d, e) ==
    IF IsSet(e) THEN FailedView ELSE LoadedView(d.val)

\* RawEdit with lines 12 and 13 in the other order
RawEditDataFirst(d, e) ==
    IF ~IsSet(d) THEN LoadingView
    ELSE IF IsSet(e) THEN FailedView
    ELSE LoadedView(d.val)

\* RawEdit that keeps showing stale data on an error: if (error && !data)
RawEditStaleData(d, e) ==
    IF IsSet(e) /\ ~IsSet(d) THEN FailedView
    ELSE IF ~IsSet(d) THEN LoadingView
    ELSE LoadedView(d.val)

\* RawEdit that takes the empty list for no data: if (!data || !data.length)
RawEditEmptyIsLoading(d, e) ==
    IF IsSet(e) THEN FailedView
    ELSE IF ~IsSet(d) \/ Len(d.val) = 0 THEN LoadingView
    ELSE LoadedView(d.val)

\* the body of RawEdit after the hook call: error first, then !data
\* (an array, also the empty one, is truthy), then the tabs
RawEdit(d, e) ==
    IF IsSet(e) THEN FailedView
    ELSE IF ~IsSet(d) THEN LoadingView
    ELSE LoadedView(d.val)

\* The Tabs container is uncontrolled: it keeps its active value while it
\* stays mounted and loses it when the view that holds it is replaced.
KeepActive(old, new) ==
    IF old.element = "Container" /\ new.element = "Container"
    THEN active ELSE Undefined

\* panels the Tabs container shows: those whose value is the active one
Visible(v, a) ==
    IF IsSet(a) THEN {i \in 1..Len(v.panels) : v.panels[i].value = a.val}
    ELSE {}

\* ------------------------------------------------------------------ init

\* after the mount: the first render saw (undefined, undefined) and the
\* hook has issued the first request
Init ==
    /\ data = Undefined
    /\ error = Undefined
    /\ view = RawEdit(Undefined, Undefined)
    /\ active = Undefined
    /\ inflight = 1
    /\ requests = 1
    /\ fetched = Undefined
    /\ renders = 1

\* --------------------------------------------------------------- actions

\* the fetcher's promise resolves with a list: the hook stores it, clears
\* the error, and the component renders again
FetchSuccess ==
    /\ inflight > 0
    /\ renders < MaxRenders
    /\ \E list \in FileLists(MaxFiles) :
        /\ data' = Some(list)
        /\ fetched' = Some(list)
        /\ error' = Undefined
        /\ view' = RawEdit(Some(list), Undefined)
        /\ active' = KeepActive(view, RawEdit(Some(list), Undefined))
    /\ inflight' = inflight - 1
    /\ renders' = renders + 1
    /\ UNCHANGED requests

\* the fetcher's promise rejects: the hook sets the error and keeps the
\* data it had, and the component renders again
FetchFailure ==
    /\ inflight > 0
    /\ renders < MaxRenders
    /\ \E e \in Errors :
        /\ error' = Some(e)
        /\ view' = RawEdit(data, Some(e))
        /\ active' = KeepActive(view, RawEdit(data, Some(e)))
    /\ inflight' = inflight - 1
    /\ renders' = renders + 1
    /\ UNCHANGED <<data, fetched, requests>>

\* Revalidate with no deduplication: a new request beside the one in flight
RevalidateNoDedupe ==
    /\ requests < MaxRequests
    /\ inflight' = inflight + 1
    /\ requests' = requests + 1
    /\ UNCHANGED <<data, error, view, active, fetched, renders>>

\* window focus or reconnect: the hook revalidates the key, unless a
\* request for it is in flight (the revalidation joins that one)
Revalidate ==
    /\ inflight = 0
    /\ requests < MaxRequests
    /\ inflight' = inflight + 1
    /\ requests' = requests + 1
    /\ UNCHANGED <<data, error, view, active, fetched, renders>>

\* the retry timer after an error fires: the hook requests the key again
ErrorRetry ==
    /\ IsSet(error)
    /\ inflight = 0
    /\ requests < MaxRequests
    /\ inflight' = inflight + 1
    /\ requests' = requests + 1
    /\ UNCHANGED <<data, error, view, active, fetched, renders>>

\* the list back to front
Reversed(list) == [i \in 1..Len(list) |-> list[Len(list) + 1 - i]]

\* Rerender with an in-place data.reverse() before the map
RerenderReversing ==
    /\ renders < MaxRenders
    /\ data' = IF IsSet(data) THEN Some(Reversed(data.val)) ELSE data
    /\ view' = RawEdit(data', error)
    /\ active' = KeepActive(view, RawEdit(data', error))
    /\ renders' = renders + 1
    /\ UNCHANGED <<error, inflight, requests, fetched>>

\* React renders RawEdit again (a parent rendered): the hook returns the
\* same pair and the body runs on it
Rerender ==
    /\ renders < MaxRenders
    /\ view' = RawEdit(data, error)
    /\ active' = KeepActive(view, RawEdit(data, error))
    /\ renders' = renders + 1
    /\ UNCHANGED <<data, error, inflight, requests, fetched>>

\* the user clicks the i-th tab: the Tabs container makes its value active
SelectTab ==
    /\ \E i \in 1..Len(view.tabs) : active' = Some(view.tabs[i].value)
    /\ UNCHANGED <<data, error, view, inflight, requests, fetched, renders>>

Next ==
    \/ FetchSuccess
    \/ FetchFailure
    \/ Revalidate
    \/ ErrorRetry
    \/ Rerender
    \/ SelectTab

Spec == Init /\ [][Next]_vars

\* ---------------------------------------------------------------- claims

\* the three views, told apart by what is on the screen
ShowsFailed == view.element = "div" /\ view.text = "failed to load"
ShowsLoading == view.element = "Fragment" /\ view.text = "loading"
ShowsTabs == view.element = "Container"
NoTabs == Len(view.tabs) = 0 /\ Len(view.panels) = 0

\* C1: after a successful fetch with no error set, the view holds exactly
\* one tab and one panel per entry of data, the i-th of each for data[i].
C1_OneTabAndPanelPerEntry ==
    (IsSet(data) /\ ~IsSet(error)) =>
        /\ ShowsTabs
        /\ Len(view.tabs) = Len(data.val)
        /\ Len(view.panels) = Len(data.val)
        /\ \A i \in 1..Len(data.val) :
            /\ view.tabs[i].value = data.val[i]
            /\ view.tabs[i].children = data.val[i]
            /\ view.panels[i].value = data.val[i]

C1_Witness ==
    /\ IsSet(data) /\ ~IsSet(error)
    /\ Len(data.val) = MaxFiles
    /\ data.val[1] # data.val[MaxFiles]
    /\ Len(view.tabs) = MaxFiles

\* C2: whenever error is set, the view is the "failed to load" message
\* and holds no tab and no panel (so no SingleFileEdit).
C2_ErrorShowsFailed ==
    IsSet(error) => (ShowsFailed /\ NoTabs)

C2_Witness ==
    IsSet(error) /\ ~IsSet(data) /\ ShowsFailed /\ inflight = 0

\* C3: whenever the fetch is pending (no data, no error), the view is the
\* "loading" message and holds no tab and no panel.
C3_PendingShowsLoading ==
    (~IsSet(data) /\ ~IsSet(error)) => (ShowsLoading /\ NoTabs)

C3_Witness ==
    ~IsSet(data) /\ ~IsSet(error) /\ inflight = 1 /\ renders >= 2
    /\ ShowsLoading

\* the entries of a list are pairwise distinct
Distinct(list) ==
    \A i, j \in 1..Len(list) : list[i] = list[j] => i = j

\* C4: in the loaded view the tab and the panel of every entry e carry the
\* value e and the panel hosts one SingleFileEdit with name = path = e;
\* every panel shown for the active tab edits the active entry, and with
\* pairwise distinct entries exactly one panel is shown for a listed entry.
C4_PanelMatchesTab ==
    ShowsTabs =>
        /\ \A i \in 1..Len(data.val) :
            /\ view.tabs[i].value = data.val[i]
            /\ view.panels[i].value = view.tabs[i].value
            /\ view.panels[i].child.name = data.val[i]
            /\ view.panels[i].child.path = data.val[i]
        /\ \A i \in Visible(view, active) :
            /\ view.panels[i].child.name = active.val
            /\ view.panels[i].child.path = active.val
        /\ (/\ IsSet(active)
            /\ Distinct(data.val)
            /\ \E i \in 1..Len(data.val) : data.val[i] = active.val)
           => Cardinality(Visible(view, active)) = 1

C4_Witness ==
    /\ ShowsTabs /\ IsSet(active)
    /\ Len(data.val) = MaxFiles
    /\ Distinct(data.val)
    /\ data.val[MaxFiles] = active.val
    /\ Visible(view, active) = {MaxFiles}

C8_ExactlyOneView ==
    /\ Cardinality({k \in {"failed", "loading", "tabs"} :
            \/ (k = "failed" /\ ShowsFailed)
            \/ (k = "loading" /\ ShowsLoading)
            \/ (k = "tabs" /\ ShowsTabs)}) = 1
    /\ ShowsFailed <=> IsSet(error)
    /\ ShowsLoading <=> (~IsSet(error) /\ ~IsSet(data))
    /\ ShowsTabs <=> (~IsSet(error) /\ IsSet(data))

\* the loaded view after several requests and renders, none in flight
C8_Witness ==
    /\ ShowsTabs /\ ~IsSet(error) /\ IsSet(data)
    /\ requests >= 3 /\ renders >= 4 /\ inflight = 0

\* C9: when error is set while data is present, the view is "failed to
\* load" and holds no tab and no panel.
C9_ErrorBeforeData ==
    (IsSet(error) /\ IsSet(data)) => (ShowsFailed /\ NoTabs)

C9_Witness ==
    /\ IsSet(error) /\ IsSet(data)
    /\ Len(data.val) >= 1
    /\ ShowsFailed /\ NoTabs

\* C10: a fetched empty list is loaded, not pending: the tab container is
\* rendered with no tab and no panel; "loading" is on the screen only
\* when data is absent and no error is set.
C10_EmptyListIsLoaded ==
    /\ (IsSet(data) /\ Len(data.val) = 0 /\ ~IsSet(error)) =>
            (ShowsTabs /\ NoTabs /\ view.text # "loading")
    /\ ShowsLoading => (~IsSet(data) /\ ~IsSet(error))

C10_Witness ==
    IsSet(data) /\ Len(data.val) = 0 /\ ~IsSet(error) /\ ShowsTabs
====
